---- MODULE Spec2Model ----
(***************************************************************************)
(* Model of the kwork.ru project parser: the SQLite record store           *)
(* (database_manager.py), the Telegram notifier (telegram_bot.py) and the  *)
(* page loop that joins them (kwork_parser.py).                            *)
(*                                                                         *)
(* Specifications:                                                         *)
(*   SpecStore   single-record store calls on one open connection          *)
(*   SpecBulk    insert_projects / get_existing_project_ids                *)
(*   SpecNotify  the notifier's operations as functions of their input     *)
(*   Spec        main(): runs of parse_and_save against a live site        *)
(*   SpecRerun   the same runs against page contents that never change     *)
(***************************************************************************)
EXTENDS Integers, Sequences, FiniteSets, Bags, TLC

VARIABLES
    db,     \* the open connection's view of the three tables
    disk,   \* the committed contents of the database file
    call,   \* what happened last outside the page loop: a call with its argument
            \* and result, an exception leaving a run, a KeyboardInterrupt
    config,         \* the options main() and _send_to_telegram read from config
    pc,             \* where main() stands
    run,            \* the locals of the parse_and_save call in progress
    run_count,      \* main(): run_count
    returned,       \* the dict each completed parse_and_save returned, oldest first
    sent,           \* what the last _send_to_telegram handed over, and its outcome
    candidates,     \* records with a non-empty id extracted in the current run
    undelivered,    \* ids of the records whose notification did not go through
    site            \* SpecRerun: the content of each page of the site

storeVars == <<db, disk, call>>

mainVars == <<config, pc, run, run_count, returned, sent, candidates, undelivered, site>>

vars == <<db, disk, call, config, pc, run, run_count, returned, sent, candidates,
          undelivered, site>>

(***************************************************************************)
(* Bounds of the model.                                                    *)
(***************************************************************************)
MaxId == 2          \* project ids 1..MaxId in single-record store calls
MaxBulkId == 3      \* project ids 1..MaxBulkId in lists handed to the store
MaxBulk == 3        \* length of a list handed to the store

(***************************************************************************)
(* Records.  A project is the dict built by _parse_project_data: id, the   *)
(* text columns (name and price_limit stand for the fourteen payload       *)
(* columns, which insert_project copies in the same statement) and buyer,  *)
(* a sequence holding the buyer dict when the key is present and not       *)
(* empty, and empty otherwise.                                             *)
(*                                                                         *)
(* An id is the value json.loads gave for the entry's "id": 0 stands for   *)
(* every falsy value (None, 0, ""), n > 0 for the JSON number n, and       *)
(* TextId(n) for the JSON string of n's decimal digits, which never equals *)
(* a number in Python.                                                     *)
(***************************************************************************)
TextId(n) == 0 - n

IsText(id) == id < 0

\* the value SQLite holds or compares for an id bound to the INTEGER PRIMARY
\* KEY column: a string of digits is converted to the integer it denotes
Affinity(id) == IF IsText(id) THEN 0 - id ELSE id

Payloads ==
    { [name |-> "site", price_limit |-> "100"],
      [name |-> "logo", price_limit |-> "200"] }

UserIds == {"", "u1", "u2"}

BuyerDicts == { [user_id |-> u, username |-> "buyer"] : u \in UserIds }

Buyers == {<<>>} \cup { <<b>> : b \in BuyerDicts }

Project(id, payload, buyer) ==
    [id |-> id, name |-> payload.name, price_limit |-> payload.price_limit,
     buyer |-> buyer]

\* Each table is the bag of its rows: the primary keys are kept by the
\* statements that write the rows, not by the representation.
EmptyDb == [projects |-> EmptyBag, buyers |-> EmptyBag, project_buyers |-> EmptyBag]

OneRow(r) == SetToBag({r})

\* the table with only its rows in keep
KeepRows(table, keep) == [r \in DOMAIN table \cap keep |-> table[r]]

Ids(d) == { r.id : r \in BagToSet(d.projects) }

Elems(s) == { s[i] : i \in 1..Len(s) }

\* an emptiness test that lets every id through
IsEmptyId_Never(id) == FALSE

\* if not project_id
IsEmptyId(id) == id = 0

(***************************************************************************)
(* DatabaseManager                                                         *)
(***************************************************************************)
\* the tuple of column values bound in INSERT OR REPLACE INTO projects
ProjectRow(project) ==
    [id |-> Affinity(project.id), name |-> project.name,
     price_limit |-> project.price_limit]

\* an existence check that never finds the row
project_exists_Never(d, project_id) == FALSE

\* SELECT id FROM projects WHERE id = ?
project_exists(d, project_id) ==
    \E r \in BagToSet(d.projects) : r.id = Affinity(project_id)

\* the IN (...) filter dropped: every stored id is returned
get_existing_project_ids_All(d, project_ids) ==
    IF project_ids = <<>>
    THEN [result |-> {}, queried |-> FALSE]
    ELSE [result |-> { r.id : r \in BagToSet(d.projects) }, queried |-> TRUE]

\* SELECT id FROM projects WHERE id IN (...); no statement for an empty list
get_existing_project_ids(d, project_ids) ==
    IF project_ids = <<>>
    THEN [result |-> {}, queried |-> FALSE]
    ELSE [result |-> { r.id : r \in { q \in BagToSet(d.projects) :
                                        \E id \in Elems(project_ids) :
                                            q.id = Affinity(id) } },
          queried |-> TRUE]

\* INSERT OR REPLACE INTO buyers: the row with the same user_id is replaced
insert_buyer(d, buyer_data) ==
    [d EXCEPT !.buyers =
        KeepRows(@, { b \in DOMAIN @ : b.user_id # buyer_data.user_id })
        (+) OneRow(buyer_data)]

\* INSERT OR IGNORE in place of INSERT OR REPLACE: a stored row is kept
ReplaceProjectRow_Ignore(rows, project) ==
    IF \E r \in BagToSet(rows) : r.id = Affinity(project.id)
    THEN rows
    ELSE rows (+) OneRow(ProjectRow(project))

\* INSERT OR REPLACE INTO projects: the row with the same id is replaced
ReplaceProjectRow(rows, project) ==
    KeepRows(rows, { r \in DOMAIN rows : r.id # Affinity(project.id) })
    (+) OneRow(ProjectRow(project))

\* a link table with no primary key: every call adds a row
InsertLink_NoKey(links, project_id, buyer_user_id) ==
    links (+) OneRow(<<Affinity(project_id), buyer_user_id>>)

\* INSERT OR IGNORE INTO project_buyers, primary key (project_id, buyer_user_id)
InsertLink(links, project_id, buyer_user_id) ==
    IF BagIn(<<Affinity(project_id), buyer_user_id>>, links)
    THEN links
    ELSE links (+) OneRow(<<Affinity(project_id), buyer_user_id>>)

insert_project(d, project) ==
    LET d1 == [d EXCEPT !.projects = ReplaceProjectRow(@, project)]
    IN  IF project.buyer # <<>>
        THEN LET buyer == project.buyer[1]
                 d2 == insert_buyer(d1, buyer)
             IN  IF buyer.user_id # ""
                 THEN [d2 EXCEPT !.project_buyers =
                          InsertLink(@, project.id, buyer.user_id)]
                 ELSE d2
        ELSE d1

\* the loop of insert_projects over the list, from position i
RECURSIVE InsertLoop(_, _, _, _, _)
InsertLoop(d, projects, i, inserted, skipped) ==
    IF i > Len(projects)
    THEN [db |-> d, inserted |-> inserted, skipped |-> skipped]
    ELSE LET project == projects[i] IN
         IF IsEmptyId(project.id)
         THEN InsertLoop(d, projects, i + 1, inserted, skipped)
         ELSE IF project_exists(d, project.id)
         THEN InsertLoop(d, projects, i + 1, inserted, skipped + 1)
         ELSE InsertLoop(insert_project(d, project), projects, i + 1,
                         inserted + 1, skipped)

insert_projects(d, projects) == InsertLoop(d, projects, 1, 0, 0)

\* DELETE ... WHERE id IN (SELECT id ... ORDER BY created_at DESC LIMIT 100):
\* the sets of rows that may be chosen, whatever the order of the timestamps
ClearLimit == 100

ClearChoices(d) ==
    { v \in SUBSET BagToSet(d.projects) :
        Cardinality(v) = IF Cardinality(BagToSet(d.projects)) < ClearLimit
                         THEN Cardinality(BagToSet(d.projects)) ELSE ClearLimit }

clear_projects(d, victims) ==
    [d EXCEPT !.projects = KeepRows(@, DOMAIN @ \ victims)]

(***************************************************************************)
(* Inputs of the store specifications.                                     *)
(***************************************************************************)
FirstPayload == [name |-> "site", price_limit |-> "100"]

\* single records: either payload without a buyer, the first payload with each buyer
StoreProjects ==
    { Project(id, p, <<>>) : id \in 1..MaxId, p \in Payloads }
    \cup { Project(id, FirstPayload, b) : id \in 1..MaxId, b \in Buyers }

\* records of a list: the first payload under every id, either payload under id 1
BulkProjects ==
    { Project(id, FirstPayload, <<>>) : id \in 0..MaxBulkId }
    \cup { Project(1, p, <<>>) : p \in Payloads }

SeqsUpTo(S, n) == UNION { [1..k -> S] : k \in 0..n }

NoCall == [op |-> "none"]

\* main() has not been entered: the state of the program's variables in the
\* specifications that exercise one component
NoRun == [page |-> 0, projects |-> <<>>, new_projects |-> <<>>,
          all_new_projects |-> <<>>, total_inserted |-> 0, total_skipped |-> 0]

NoSend == [op |-> "none"]

NotStarted ==
    /\ config = [run_mode |-> "once", use_telegram |-> FALSE,
                 send_individual |-> FALSE, batch_size |-> 0]
    /\ pc = "idle"
    /\ run = NoRun
    /\ run_count = 0
    /\ returned = <<>>
    /\ sent = NoSend
    /\ candidates = 0
    /\ undelivered = {}
    /\ site = <<>>

(***************************************************************************)
(* SpecStore: insert_project, with the commit its callers issue after it,  *)
(* and clear_projects, called on one connection.  call.before is the       *)
(* connection's view when the call was made.                               *)
(***************************************************************************)
InitStore ==
    /\ db = EmptyDb
    /\ disk = EmptyDb
    /\ call = NoCall
    /\ NotStarted

InsertProjectCall(project) ==
    /\ db' = insert_project(db, project)
    /\ call' = [op |-> "insert_project", project |-> project, before |-> db]
    /\ disk' = db'
    /\ UNCHANGED mainVars

ClearProjectsCall(victims) ==
    /\ db' = clear_projects(db, victims)
    /\ disk' = db'
    /\ call' = [op |-> "clear_projects", before |-> db]
    /\ UNCHANGED mainVars

NextStore ==
    \/ \E project \in StoreProjects : InsertProjectCall(project)
    \/ \E victims \in ClearChoices(db) : ClearProjectsCall(victims)

SpecStore == InitStore /\ [][NextStore]_vars

(***************************************************************************)
(* SpecBulk: one call of insert_projects or get_existing_project_ids on a  *)
(* store of any contents: each id stored at most once, as every writer     *)
(* leaves it.                                                              *)
(***************************************************************************)
StoredRows == { ProjectRow(Project(id, p, <<>>)) : id \in 1..MaxBulkId, p \in Payloads }

BulkStores ==
    { [EmptyDb EXCEPT !.projects = SetToBag(rows)] :
        rows \in { R \in SUBSET StoredRows :
                     \A r1, r2 \in R : r1.id = r2.id => r1 = r2 } }

InitBulk ==
    /\ db \in BulkStores
    /\ disk = db
    /\ call = NoCall
    /\ NotStarted

InsertProjectsCall(projects) ==
    LET r == insert_projects(db, projects) IN
    /\ call.op = "none"
    /\ db' = r.db
    /\ disk' = r.db
    /\ call' = [op |-> "insert_projects", projects |-> projects, before |-> db,
                inserted |-> r.inserted, skipped |-> r.skipped]
    /\ UNCHANGED mainVars

GetExistingProjectIdsCall(project_ids) ==
    LET r == get_existing_project_ids(db, project_ids) IN
    /\ call.op = "none"
    /\ call' = [op |-> "get_existing_project_ids", project_ids |-> project_ids,
                before |-> db, result |-> r.result, queried |-> r.queried]
    /\ UNCHANGED <<db, disk>>
    /\ UNCHANGED mainVars

NextBulk ==
    \/ \E projects \in SeqsUpTo(BulkProjects, MaxBulk) : InsertProjectsCall(projects)
    \/ \E project_ids \in SeqsUpTo(0..MaxBulkId, MaxBulk) :
           GetExistingProjectIdsCall(project_ids)

SpecBulk == InitBulk /\ [][NextBulk]_vars

(***************************************************************************)
(* Properties of the store.                                                *)
(***************************************************************************)
RowsOf(d, id) == KeepRows(d.projects, { r \in DOMAIN d.projects : r.id = id })

RowsNot(d, id) == KeepRows(d.projects, { r \in DOMAIN d.projects : r.id # id })

\* C4 (upsert correctness): after insert_project(p) the projects table holds
\* exactly one row with p's id, every column of that row has p's value, and
\* the rows of every other id are the ones the table held before the call.
C4_UpsertCorrect ==
    call.op = "insert_project" =>
        LET p == call.project IN
        /\ BagCardinality(RowsOf(db, p.id)) = 1
        /\ \A r \in BagToSet(RowsOf(db, p.id)) :
               r.name = p.name /\ r.price_limit = p.price_limit
        /\ RowsNot(db, p.id) = RowsNot(call.before, p.id)

\* the second insert_project of an id, with a payload that differs from the stored one
C4_Witness ==
    /\ call.op = "insert_project"
    /\ \E r \in BagToSet(call.before.projects) :
           /\ r.id = call.project.id
           /\ r.name # call.project.name
           /\ r.price_limit # call.project.price_limit
    /\ \E r \in BagToSet(call.before.projects) : r.id # call.project.id

\* C5 (link idempotence): after insert_project of a record with a non-empty
\* buyer id the link table holds exactly one row for the pair, and when the
\* pair was linked already the call changes no link row.
C5_LinkIdempotent ==
    (call.op = "insert_project" /\ call.project.buyer # <<>>) =>
        LET pair == <<call.project.id, call.project.buyer[1].user_id>> IN
        pair[2] # "" =>
            /\ CopiesIn(pair, db.project_buyers) = 1
            /\ BagIn(pair, call.before.project_buyers) =>
                   db.project_buyers = call.before.project_buyers

\* the same (record id, buyer id) pair linked a second time
C5_Witness ==
    /\ call.op = "insert_project"
    /\ call.project.buyer # <<>>
    /\ call.project.buyer[1].user_id # ""
    /\ BagIn(<<call.project.id, call.project.buyer[1].user_id>>,
             call.before.project_buyers)

NonEmptyPositions(projects) ==
    { i \in 1..Len(projects) : ~IsEmptyId(projects[i].id) }

\* the positions of a list whose id is stored already when the loop reaches
\* them: stored before the call, or carried by an earlier position
KnownPositions(before, projects) ==
    { i \in NonEmptyPositions(projects) :
        \/ projects[i].id \in Ids(before)
        \/ \E j \in 1..(i - 1) : projects[j].id = projects[i].id }

\* C6 (bulk insert counts): insert_projects counts a record as inserted
\* exactly when its id is absent from the store when the loop reaches it and
\* as skipped otherwise; a row stored before the call is left as it was;
\* inserted is the growth of the projects table, and the ids stored afterwards
\* are the old ids and the non-empty ids of the list.
C6_BulkInsertExact ==
    call.op = "insert_projects" =>
        LET known == KnownPositions(call.before, call.projects)
            fresh == NonEmptyPositions(call.projects) \ known
        IN  /\ call.skipped = Cardinality(known)
            /\ call.inserted = Cardinality(fresh)
            /\ call.inserted = BagCardinality(db.projects)
                                 - BagCardinality(call.before.projects)
            /\ Ids(db) = Ids(call.before)
                           \cup { call.projects[i].id : i \in NonEmptyPositions(call.projects) }
            /\ \A r \in BagToSet(call.before.projects) :
                   CopiesIn(r, db.projects) = CopiesIn(r, call.before.projects)
            /\ \A i \in fresh :
                   BagToSet(RowsOf(db, call.projects[i].id)) = {ProjectRow(call.projects[i])}

\* ids [1,2,3] against a store holding {2}: inserted 2, skipped 1, store {1,2,3};
\* the stored row of 2 differs from the one offered
C6_Witness ==
    /\ call.op = "insert_projects"
    /\ [i \in 1..Len(call.projects) |-> call.projects[i].id] = <<1, 2, 3>>
    /\ Ids(call.before) = {2}
    /\ ProjectRow(call.projects[2]) \notin BagToSet(call.before.projects)
    /\ call.inserted = 2
    /\ call.skipped = 1
    /\ Ids(db) = {1, 2, 3}

HardLimit == 4096       \* if len(text) > 4096
max_length == 4000      \* max_length = 4000

Whitespace == {" ", "\n", "\t", "\r"}

Rep(c, n) == [i \in 1..n |-> c]

\* text.find(c, start, end): the lowest index in [start, end), or -1
rfind_First(text, c, start, end) ==
    LET last == IF end < Len(text) THEN end ELSE Len(text)
        hits == { i \in start..(last - 1) : text[i + 1] = c }
    IN  IF hits = {} THEN -1 ELSE CHOOSE i \in hits : \A j \in hits : i <= j

\* text.rfind(c, start, end): the highest index (from 0) in [start, end), or -1
rfind(text, c, start, end) ==
    LET last == IF end < Len(text) THEN end ELSE Len(text)
        hits == { i \in start..(last - 1) : text[i + 1] = c }
    IN  IF hits = {} THEN -1 ELSE CHOOSE i \in hits : \A j \in hits : j <= i

\* text.lstrip()
RECURSIVE FirstNonSpace(_, _)
FirstNonSpace(text, i) ==
    IF i > Len(text) \/ text[i] \notin Whitespace THEN i
    ELSE FirstNonSpace(text, i + 1)

lstrip(text) == SubSeq(text, FirstNonSpace(text, 1), Len(text))

\* the newline is looked for in the whole text, not in the first max_length characters
SplitPos_Unbounded(text) ==
    LET split_pos == rfind(text, "\n", 0, Len(text))
    IN  IF split_pos = -1 THEN max_length ELSE split_pos

\* split_pos = text.rfind('\n', 0, max_length); if split_pos == -1: split_pos = max_length
SplitPos(text) ==
    LET split_pos == rfind(text, "\n", 0, max_length)
    IN  IF split_pos = -1 THEN max_length ELSE split_pos

\* the while loop of _send_long_message
RECURSIVE SplitLoop(_, _)
SplitLoop(text, parts) ==
    IF text = <<>> THEN parts
    ELSE IF Len(text) <= max_length THEN Append(parts, text)
    ELSE SplitLoop(lstrip(SubSeq(text, SplitPos(text) + 1, Len(text))),
                   Append(parts, SubSeq(text, 1, SplitPos(text))))

SplitParts(text) == SplitLoop(text, <<>>)

\* requests.post of one payload, the k-th delivery call of the operation
Deliver(text, fails, k) ==
    [ok |-> k \notin fails, posts |-> <<[text |-> text, ok |-> k \notin fails]>>]

\* send_message and _send_long_message; k delivery calls were made before
RECURSIVE send_message(_, _, _)
\* a loop that goes on after a failed segment
RECURSIVE SendParts_Continues(_, _, _, _)
SendParts_Continues(parts, i, fails, k) ==
    IF i > Len(parts) THEN [ok |-> TRUE, posts |-> <<>>]
    ELSE LET r == send_message(parts[i], fails, k)
             rest == SendParts_Continues(parts, i + 1, fails, k + Len(r.posts))
         IN  [ok |-> r.ok /\ rest.ok, posts |-> r.posts \o rest.posts]

\* for i, part in enumerate(parts): the first failed segment returns False
RECURSIVE SendParts(_, _, _, _)
SendParts(parts, i, fails, k) ==
    IF i > Len(parts) THEN [ok |-> TRUE, posts |-> <<>>]
    ELSE LET r == send_message(parts[i], fails, k) IN
         IF ~r.ok THEN [ok |-> FALSE, posts |-> r.posts]
         ELSE LET rest == SendParts(parts, i + 1, fails, k + Len(r.posts))
              IN  [ok |-> rest.ok, posts |-> r.posts \o rest.posts]

send_long_message(text, fails, k) == SendParts(SplitParts(text), 1, fails, k)

send_message(text, fails, k) ==
    IF Len(text) > HardLimit
    THEN send_long_message(text, fails, k)
    ELSE Deliver(text, fails, k + 1)

\* text.replace(c, by)
RECURSIVE replace(_, _, _)
replace(text, c, by) ==
    IF text = <<>> THEN <<>>
    ELSE (IF Head(text) = c THEN by ELSE <<Head(text)>>) \o replace(Tail(text), c, by)

escape_html(text) ==
    IF text = <<>> THEN <<>>
    ELSE replace(replace(replace(text, "&", <<"&", "a", "m", "p", ";">>),
                         "<", <<"&", "l", "t", ";">>),
                 ">", <<"&", "g", "t", ";">>)

\* str(n) for n >= 0
RECURSIVE Str(_)
Str(n) ==
    IF n < 10
    THEN <<<<"0", "1", "2", "3", "4", "5", "6", "7", "8", "9">>[n + 1]>>
    ELSE Str(n \div 10) \o Str(n % 10)

\* the message of one project in _format_projects_batch, numbered i
FormatEntry(project, i) ==
    <<"\n">> \o Str(i) \o <<".", " ", "<", "b", ">">> \o escape_html(project.name)
    \o <<"<", "/", "b", ">", "\n", " ", " ", " ">> \o project.price_limit
    \o <<" ", "-", " ">> \o project.possible_price_limit
    \o <<" ", "U+20BD", "\n", " ", " ", " ", "<", "a", " ", "h", "r", "e", "f", "=", "\"">>
    \o project.url
    \o <<"\"", ">", "U+041E", "U+0442", "U+043A", "U+0440", "U+044B", "U+0442", "U+044C",
         "<", "/", "a", ">", "\n">>

RECURSIVE FormatEntries(_, _, _)
FormatEntries(projects, j, start_num) ==
    IF j > Len(projects) THEN <<>>
    ELSE FormatEntry(projects[j], start_num + j - 1)
         \o FormatEntries(projects, j + 1, start_num)

format_projects_batch(projects, start_num) ==
    <<"<", "b", ">", "U+041D", "U+043E", "U+0432", "U+044B", "U+0435", " ", "U+043F",
      "U+0440", "U+043E", "U+0435", "U+043A", "U+0442", "U+044B", " ", "(">>
    \o Str(start_num) \o <<"-">> \o Str(start_num + Len(projects) - 1)
    \o <<")", ":", "<", "/", "b", ">", "\n">>
    \o FormatEntries(projects, 1, start_num)

\* the slice taken one record short
Chunk_Short(projects, i, batch_size) ==
    SubSeq(projects, i + 1,
           IF i + batch_size - 1 < Len(projects) THEN i + batch_size - 1 ELSE Len(projects))

\* projects[i:i + batch_size]
Chunk(projects, i, batch_size) ==
    SubSeq(projects, i + 1,
           IF i + batch_size < Len(projects) THEN i + batch_size ELSE Len(projects))

\* the loop of send_projects_batch from offset i, after k delivery calls
RECURSIVE BatchLoop(_, _, _, _, _)
BatchLoop(projects, batch_size, i, fails, k) ==
    IF i >= Len(projects)
    THEN [sent_count |-> 0, chunks |-> <<>>, posts |-> <<>>]
    ELSE LET batch == Chunk(projects, i, batch_size)
             message == format_projects_batch(batch, i + 1)
             r == send_message(message, fails, k)
             rest == BatchLoop(projects, batch_size, i + batch_size, fails,
                               k + Len(r.posts))
         IN  [sent_count |-> (IF r.ok THEN Len(batch) ELSE 0) + rest.sent_count,
              chunks |-> <<[batch |-> batch, start_num |-> i + 1, ok |-> r.ok]>>
                           \o rest.chunks,
              posts |-> r.posts \o rest.posts]

\* range(0, len(projects), batch_size) raises ValueError for a step of zero
send_projects_batch(projects, batch_size, fails) ==
    IF batch_size = 0
    THEN [raised |-> TRUE, sent_count |-> 0, chunks |-> <<>>, posts |-> <<>>]
    ELSE [raised |-> FALSE] @@ BatchLoop(projects, batch_size, 0, fails, 0)

\* text.strip()
RECURSIVE LastNonSpace(_, _)
LastNonSpace(text, i) ==
    IF i < 1 \/ text[i] \notin Whitespace THEN i
    ELSE LastNonSpace(text, i - 1)

strip(text) == SubSeq(text, FirstNonSpace(text, 1), LastNonSpace(text, Len(text)))

DescriptionLimit == 500     \* if len(description) > 500

\* description[:497] + "..."
Truncate(description) ==
    IF Len(description) > DescriptionLimit
    THEN SubSeq(description, 1, DescriptionLimit - 3) \o <<".", ".", ".">>
    ELSE description

\* buyer_info of _format_project_message; wants_count and hired_percent are
\* absent from the buyer dict and read as their default '0'
BuyerInfo(project) ==
    IF project.buyer = <<>> THEN <<>>
    ELSE <<"\n", "<", "b", ">", "U+0417", "U+0430", "U+043A", "U+0430",
           "U+0437", "U+0447", "U+0438", "U+043A", ":", "<", "/", "b", ">",
           " ">>
         \o escape_html(project.buyer[1].username)
         \o <<"\n", "U+041F", "U+0440", "U+043E", "U+0435", "U+043A", "U+0442",
           "U+043E", "U+0432", ":", " ">> \o <<"0">>
         \o <<" ", "|", " ", "U+041D", "U+0430", "U+043D", "U+044F", "U+0442",
           "U+043E", ":", " ">> \o <<"0">> \o <<"%">>

format_project_message(project) ==
    strip(<<"\n", "<", "b", ">">>
          \o escape_html(project.name)
          \o <<"<", "/", "b", ">", "\n", "\n", "<", "b", ">", "U+0411",
            "U+044E", "U+0434", "U+0436", "U+0435", "U+0442", ":", "<", "/",
            "b", ">", " ">>
          \o project.price_limit \o <<" ", "-", " ">> \o project.possible_price_limit
          \o <<" ", "U+20BD", "\n", "<", "b", ">", "U+041E", "U+0441", "U+0442",
            "U+0430", "U+043B", "U+043E", "U+0441", "U+044C", ":", "<", "/",
            "b", ">", " ">>
          \o project.time_left \o <<"\n">> \o BuyerInfo(project)
          \o <<"\n", "\n", "<", "b", ">", "U+041E", "U+043F", "U+0438",
            "U+0441", "U+0430", "U+043D", "U+0438", "U+0435", ":", "<", "/",
            "b", ">", "\n">>
          \o Truncate(escape_html(project.description))
          \o <<"\n", "\n", "<", "a", " ", "h", "r", "e", "f", "=", "\"">>
          \o project.url
          \o <<"\"", ">", "U+041F", "U+0435", "U+0440", "U+0435", "U+0439",
            "U+0442", "U+0438", " ", "U+043A", " ", "U+043F", "U+0440",
            "U+043E", "U+0435", "U+043A", "U+0442", "U+0443", "<", "/", "a",
            ">", "\n", "U+2501", "U+2501", "U+2501", "U+2501", "U+2501",
            "U+2501", "U+2501", "U+2501", "U+2501", "U+2501", "U+2501",
            "U+2501", "U+2501", "U+2501", "U+2501", "U+2501", "U+2501",
            "U+2501", "U+2501", "U+2501", "\n">>)

\* send_project
send_project(project, fails, k) == send_message(format_project_message(project), fails, k)

(***************************************************************************)
(* SpecNotify: one operation of the notifier on an input of the sets below.*)
(***************************************************************************)
MaxUnits == 2       \* a raw text is up to MaxUnits blocks, each after a separator
MaxPosts == 2       \* delivery calls of one operation that may fail
MaxBatch == 2       \* the batch_size handed to send_projects_batch
MaxBatchLen == 3    \* records handed to send_projects_batch

BlockLens == {HardLimit - max_length + 1, max_length - 1, max_length}

Separators == {<<>>, <<"\n">>, <<"\n", " ">>}

RECURSIVE RawTexts(_)
RawTexts(n) ==
    IF n = 0 THEN {<<>>}
    ELSE RawTexts(n - 1)
         \cup { t \o sep \o Rep("a", len) :
                  t \in RawTexts(n - 1), sep \in Separators, len \in BlockLens }

\* the delivery calls that fail: none, or one of the first MaxPosts
FailSets == {{}} \cup { {k} : k \in 1..MaxPosts }

Messages ==
    { [name |-> n, price_limit |-> p, possible_price_limit |-> <<"9">>,
       url |-> <<"k", "/", "1">>] :
        n \in {<<"a">>, <<"<", "&", ">">>}, p \in {<<"5">>, <<"<", "5">>} }

InitNotify ==
    /\ db = EmptyDb
    /\ disk = EmptyDb
    /\ call = NoCall
    /\ NotStarted

SendMessageCall(text, fails) ==
    LET r == send_message(text, fails, 0) IN
    /\ call.op = "none"
    /\ call' = [op |-> "send_message", text |-> text, fails |-> fails,
                parts |-> IF Len(text) > HardLimit THEN SplitParts(text) ELSE <<>>,
                ok |-> r.ok, posts |-> r.posts]
    /\ UNCHANGED <<db, disk>>
    /\ UNCHANGED mainVars

SendProjectsBatchCall(projects, batch_size, fails) ==
    LET r == send_projects_batch(projects, batch_size, fails) IN
    /\ call.op = "none"
    /\ call' = [op |-> "send_projects_batch", projects |-> projects,
                batch_size |-> batch_size, fails |-> fails, raised |-> r.raised,
                sent_count |-> r.sent_count, chunks |-> r.chunks, posts |-> r.posts]
    /\ UNCHANGED <<db, disk>>
    /\ UNCHANGED mainVars

NextNotify ==
    \/ \E text \in RawTexts(MaxUnits), fails \in FailSets :
           SendMessageCall(text, fails)
    \/ \E projects \in SeqsUpTo(Messages, MaxBatchLen), batch_size \in 0..MaxBatch,
          fails \in FailSets :
           SendProjectsBatchCall(projects, batch_size, fails)

SpecNotify == InitNotify /\ [][NextNotify]_vars

(***************************************************************************)
(* Properties of the notifier.                                             *)
(***************************************************************************)
\* C3 (size bound): every segment the split routine produces is at most
\* max_length (4000) characters long, and every text handed to a single
\* delivery call is at most 4096 characters long.
C3_SizeBound ==
    call.op \in {"send_message", "send_projects_batch"} =>
        /\ call.op = "send_message" =>
               \A i \in 1..Len(call.parts) : Len(call.parts[i]) <= max_length
        /\ \A j \in 1..Len(call.posts) : Len(call.posts[j].text) <= HardLimit

\* a text over 4096 characters with no newline in its first 4000: it is cut
\* at the ceiling, and both segments are delivered
C3_Witness ==
    /\ call.op = "send_message"
    /\ Len(call.text) > HardLimit
    /\ Len(call.parts) = 2
    /\ Len(call.parts[1]) = max_length
    /\ call.parts[2] # <<>>
    /\ Len(call.posts) = 2

RECURSIVE SentByOkChunks(_)
SentByOkChunks(chunks) ==
    IF chunks = <<>> THEN 0
    ELSE (IF Head(chunks).ok THEN Len(Head(chunks).batch) ELSE 0)
         + SentByOkChunks(Tail(chunks))

\* C8 (batch partition): for a batch_size of at least 1, send_projects_batch
\* sends the records in order in consecutive chunks of batch_size records (the
\* last one possibly shorter), one send per chunk whatever the earlier sends
\* returned, and returns the number of records of the chunks whose send
\* succeeded; the result lies between 0 and the number of records.
C8_BatchPartition ==
    (call.op = "send_projects_batch" /\ call.batch_size >= 1) =>
        LET n == Len(call.projects)
            bs == call.batch_size
            cs == call.chunks
        IN  /\ ~call.raised
            /\ Len(cs) = (n + bs - 1) \div bs
            /\ \A j \in 1..Len(cs) :
                   /\ cs[j].batch = SubSeq(call.projects, (j - 1) * bs + 1,
                                           IF j * bs < n THEN j * bs ELSE n)
                   /\ Len(cs[j].batch) >= 1
                   /\ j < Len(cs) => Len(cs[j].batch) = bs
            /\ (\A j \in 1..Len(cs) :
                    Len(format_projects_batch(cs[j].batch, cs[j].start_num)) <= HardLimit)
                 => /\ Len(call.posts) = Len(cs)
                    /\ \A j \in 1..Len(cs) :
                         /\ call.posts[j].text
                              = format_projects_batch(cs[j].batch, cs[j].start_num)
                         /\ call.posts[j].ok = cs[j].ok
                         /\ cs[j].ok = (j \notin call.fails)
            /\ call.sent_count = SentByOkChunks(cs)
            /\ 0 <= call.sent_count /\ call.sent_count <= n

\* three records in chunks of two: the first chunk fails, the second is sent
C8_Witness ==
    /\ call.op = "send_projects_batch"
    /\ call.batch_size = 2
    /\ Len(call.projects) = 3
    /\ Len(call.chunks) = 2
    /\ ~call.chunks[1].ok
    /\ call.chunks[2].ok
    /\ call.sent_count = 1

\* a record with its price bounds and URL in escaped form
EscapedFields(project) ==
    [project EXCEPT !.price_limit = escape_html(@),
                    !.possible_price_limit = escape_html(@),
                    !.url = escape_html(@)]

\* C9 (escaping before transmission): every text delivered for a chunk of
\* records is the batch message with each record field (name, price bounds,
\* URL) in escaped form, so no &, < or > of record data reaches the channel raw.
C9_EscapedBeforeTransmission ==
    (call.op = "send_projects_batch" /\ ~call.raised) =>
        \A j \in 1..Len(call.posts) :
            call.posts[j].text
              = format_projects_batch(
                    [i \in 1..Len(call.chunks[j].batch) |->
                        EscapedFields(call.chunks[j].batch[i])],
                    call.chunks[j].start_num)

(***************************************************************************)
(* KworkParser                                                             *)
(***************************************************************************)
IdsOf(projects) == [i \in 1..Len(projects) |-> projects[i].id]

\* the loop of the individual mode from record i, after k delivery calls:
\* the result of send_project is not looked at
RECURSIVE IndividualLoop(_, _, _, _)
IndividualLoop(projects, i, fails, k) ==
    IF i > Len(projects) THEN <<>>
    ELSE LET r == send_project(projects[i], fails, k)
         IN  <<[ids |-> <<projects[i].id>>, ok |-> r.ok]>>
             \o IndividualLoop(projects, i + 1, fails, k + Len(r.posts))

\* the try block of _send_to_telegram: whether it raised, and each message
\* attempted with the ids of its records
SendAttempts(cfg, projects, fails) ==
    IF cfg.send_individual
    THEN [raised |-> FALSE, attempts |-> IndividualLoop(projects, 1, fails, 0)]
    ELSE LET r == send_projects_batch(projects, cfg.batch_size, fails)
         IN  [raised |-> r.raised,
              attempts |-> [j \in 1..Len(r.chunks) |->
                              [ids |-> IdsOf(r.chunks[j].batch), ok |-> r.chunks[j].ok]]]

\* _send_to_telegram: except Exception keeps whatever the try block raised
send_to_telegram(cfg, projects, fails) ==
    LET r == SendAttempts(cfg, projects, fails)
    IN  [op |-> "send_to_telegram", projects |-> projects, raised |-> r.raised,
         escaped |-> FALSE, attempts |-> r.attempts]

\* the ids among those handed over whose message went through
DeliveredIds(s) ==
    UNION { Elems(s.attempts[j].ids) : j \in { i \in 1..Len(s.attempts) : s.attempts[i].ok } }

\* project_ids = [p.get('id') for p in projects if p.get('id')]
RECURSIVE ProjectIds(_)
ProjectIds(projects) ==
    IF projects = <<>> THEN <<>>
    ELSE (IF IsEmptyId(Head(projects).id) THEN <<>> ELSE <<Head(projects).id>>)
         \o ProjectIds(Tail(projects))

\* the loop that splits a page into new and known records
RECURSIVE Classify(_, _)
Classify(projects, existing_ids) ==
    IF projects = <<>>
    THEN [new_projects |-> <<>>, inserted |-> 0, skipped |-> 0]
    ELSE LET proj == Head(projects)
             rest == Classify(Tail(projects), existing_ids)
         IN  IF IsEmptyId(proj.id) THEN rest
             ELSE IF proj.id \in existing_ids
             THEN [rest EXCEPT !.skipped = @ + 1]
             ELSE [rest EXCEPT !.new_projects = <<proj>> \o @, !.inserted = @ + 1]

\* for proj in new_projects: self.db.insert_project(proj), stopped after k records
RECURSIVE InsertFirst(_, _, _)
InsertFirst(d, new_projects, k) ==
    IF k = 0 THEN d
    ELSE insert_project(InsertFirst(d, new_projects, k - 1), new_projects[k])

\* a commit that writes nothing
commit_Skipped(view, file) == file

\* self.db.conn.commit(): the file takes the connection's view
commit(view, file) == view

\* get_statistics, the two counts parse_and_save reads
get_statistics(d) ==
    [total_projects |-> BagCardinality(d.projects),
     total_buyers |-> BagCardinality(d.buyers)]

(***************************************************************************)
(* Spec: main().  The site answers each fetch with any page; a page that   *)
(* cannot be fetched is the empty page (parse_page returns []).  Between   *)
(* two runs another user of the database file may call insert_projects.    *)
(***************************************************************************)
MaxRuns == 2        \* runs of parse_and_save started by main()
MaxPageLen == 2     \* records on one page
start_page == 1     \* START_PAGE
end_page == 2       \* END_PAGE

\* the ids a page may carry: none (0), the numbers 1..MaxId, and the id 1
\* written as a string
SiteIds == (0..MaxId) \cup {TextId(1)}

\* the record _parse_project_data builds for the entry with this id; the
\* record 1 names its buyer
SiteProject(id) ==
    [id |-> id,
     name |-> <<"p">> \o Str(Affinity(id)),
     description |-> <<"d">>,
     price_limit |-> <<"5">>,
     possible_price_limit |-> <<"9">>,
     time_left |-> <<"1", "h">>,
     url |-> <<"k", "/">> \o Str(Affinity(id)),
     buyer |-> IF Affinity(id) = 1
               THEN <<[user_id |-> "u1", username |-> <<"u">>]>>
               ELSE <<>>]

SiteProjects == { SiteProject(id) : id \in SiteIds }

PageContents == SeqsUpTo(SiteProjects, MaxPageLen)

\* the options read; batch_size matters only when batches are sent
Configs ==
    { c \in [run_mode : {"once", "loop"}, use_telegram : BOOLEAN,
             send_individual : BOOLEAN, batch_size : 0..MaxBatch] :
        /\ c.send_individual => c.use_telegram
        /\ (c.use_telegram /\ ~c.send_individual) \/ c.batch_size = MaxBatch }

Init ==
    /\ db = EmptyDb
    /\ disk = EmptyDb
    /\ call = NoCall
    /\ config \in Configs
    /\ pc = "idle"
    /\ run = NoRun
    /\ run_count = 0
    /\ returned = <<>>
    /\ sent = NoSend
    /\ candidates = 0
    /\ undelivered = {}
    /\ site = <<>>

\* no except Exception around the run: the exception ends the process
\* an exception swallowed inside parse_and_save: the run goes on
Raised_Swallowed == "pace"

\* an exception that ends the process in either mode
Raised_Propagates == "crashed"

\* where an exception that leaves parse_and_save takes main(): the wait of
\* except Exception in loop mode, the end of the process otherwise
Raised == IF config.run_mode = "loop" THEN "retry_wait" ELSE "crashed"

\* run_count += 1 (loop mode), then connect() and init_database(): the new
\* connection sees the committed file
StartRun ==
    /\ pc = "idle"
    /\ run_count < MaxRuns
    /\ run_count' = IF config.run_mode = "loop" THEN run_count + 1 ELSE run_count
    /\ db' = disk
    /\ call' = NoCall
    /\ run' = [NoRun EXCEPT !.page = start_page]
    /\ sent' = NoSend
    /\ candidates' = 0
    /\ pc' = "fetch"
    /\ UNCHANGED <<disk, config, returned, undelivered, site>>

\* projects = self.parse_page(page)
ParsePage(content) ==
    /\ pc = "fetch"
    /\ run' = [run EXCEPT !.projects = content]
    /\ candidates' = candidates
                       + Cardinality({ i \in 1..Len(content) : content[i].id # 0 })
    /\ pc' = IF content = <<>> THEN "pace" ELSE "filter"
    /\ UNCHANGED <<db, disk, call, config, run_count, returned, sent, undelivered, site>>

\* lines 231-247: the ids asked for, the ids found, the split; projects is
\* not read again before the next page assigns it
Filter ==
    /\ pc = "filter"
    /\ LET existing_ids == get_existing_project_ids(db, ProjectIds(run.projects)).result
           c == Classify(run.projects, existing_ids)
       IN  /\ run' = [run EXCEPT !.new_projects = c.new_projects,
                                 !.total_inserted = @ + c.inserted,
                                 !.total_skipped = @ + c.skipped,
                                 !.projects = <<>>]
           /\ pc' = IF c.new_projects # <<>> THEN "persist" ELSE "pace"
    /\ UNCHANGED <<db, disk, call, config, run_count, returned, sent, candidates,
                   undelivered, site>>

\* lines 251-254: every new record written, one commit, the run's list extended
Persist ==
    /\ pc = "persist"
    /\ db' = InsertFirst(db, run.new_projects, Len(run.new_projects))
    /\ disk' = commit(db', disk)
    /\ run' = [run EXCEPT !.all_new_projects = @ \o run.new_projects]
    /\ pc' = IF config.use_telegram THEN "notify" ELSE "pace"
    /\ UNCHANGED <<call, config, run_count, returned, sent, candidates, undelivered, site>>

\* self._send_to_telegram(new_projects)
SendToTelegram(fails) ==
    /\ pc = "notify"
    /\ sent' = send_to_telegram(config, run.new_projects, fails)
    /\ undelivered' = undelivered \cup (Elems(IdsOf(run.new_projects)) \ DeliveredIds(sent'))
    /\ pc' = IF sent'.escaped THEN Raised ELSE "pace"
    /\ UNCHANGED <<db, disk, call, config, run, run_count, returned, candidates, site>>

\* if page < end_page: time.sleep(delay), and the loop takes the next page
NextPage ==
    /\ pc = "pace"
    /\ run.page < end_page
    /\ run' = [run EXCEPT !.page = @ + 1, !.projects = <<>>, !.new_projects = <<>>]
    /\ sent' = NoSend
    /\ pc' = "fetch"
    /\ UNCHANGED <<db, disk, call, config, run_count, returned, candidates,
                   undelivered, site>>

\* lines 265-283 after the last page: get_statistics, disconnect, return stats
Finish ==
    /\ pc = "pace"
    /\ run.page = end_page
    /\ returned' = Append(returned,
                     [total_parsed |-> run.total_inserted + run.total_skipped,
                      new_projects |-> run.total_inserted,
                      skipped_existing |-> run.total_skipped,
                      db_total_projects |-> get_statistics(db).total_projects,
                      db_total_buyers |-> get_statistics(db).total_buyers])
    /\ run' = NoRun
    /\ sent' = NoSend
    /\ pc' = IF config.run_mode = "loop" THEN "sleep" ELSE "exit"
    /\ UNCHANGED <<db, disk, call, config, run_count, candidates, undelivered, site>>

\* time.sleep(interval_seconds) at the end of the try block
Sleep ==
    /\ pc = "sleep"
    /\ pc' = "idle"
    /\ call' = NoCall
    /\ UNCHANGED <<db, disk, config, run, run_count, returned, sent, candidates,
                   undelivered, site>>

\* a store call of parse_and_save raises: the lookup of a non-empty id list,
\* an insert or the commit, or get_statistics.  Nothing catches it inside
\* parse_and_save; rows written and not committed are rolled back when the
\* connection is dropped.
StoreRaises ==
    /\ \/ pc = "filter" /\ ProjectIds(run.projects) # <<>>
       \/ pc = "persist"
       \/ pc = "pace" /\ run.page = end_page
    /\ db' = disk
    /\ call' = [op |-> "raised", at |-> pc]
    /\ run' = NoRun
    /\ sent' = NoSend
    /\ pc' = Raised
    /\ UNCHANGED <<disk, config, run_count, returned, candidates, undelivered, site>>

\* time.sleep(interval_minutes * 60) of except Exception
RetryWait ==
    /\ pc = "retry_wait"
    /\ pc' = "idle"
    /\ UNCHANGED <<db, disk, call, config, run, run_count, returned, sent, candidates,
                   undelivered, site>>

\* KeyboardInterrupt: caught by the loop's try block, where it ends the loop
\* with the report; not caught during the wait of except Exception, nor in
\* the single run
Interrupt ==
    /\ pc \in {"idle", "fetch", "filter", "persist", "notify", "pace", "sleep", "retry_wait"}
    /\ pc' = IF config.run_mode = "loop" /\ pc # "retry_wait" THEN "stopped" ELSE "crashed"
    /\ db' = disk
    /\ call' = [op |-> "KeyboardInterrupt", at |-> pc]
    /\ run' = NoRun
    /\ sent' = NoSend
    /\ UNCHANGED <<disk, config, run_count, returned, candidates, undelivered, site>>

\* insert_projects called on the file by another user of DatabaseManager
\* during the sleep between two runs, at most once
OtherInsertProjects(projects) ==
    /\ pc = "sleep"
    /\ InsertProjectsCall(projects)

Next ==
    \/ StartRun
    \/ \E content \in PageContents : ParsePage(content)
    \/ Filter
    \/ Persist
    \/ \E fails \in FailSets : SendToTelegram(fails)
    \/ NextPage
    \/ Finish
    \/ Sleep
    \/ StoreRaises
    \/ RetryWait
    \/ Interrupt
    \/ \E projects \in PageContents : OtherInsertProjects(projects)

Spec == Init /\ [][Next]_vars

(***************************************************************************)
(* SpecRerun: loop mode against a site whose pages never change, with no   *)
(* failure of the store, no interrupt and no other user of the file.       *)
(***************************************************************************)
InitRerun ==
    /\ db = EmptyDb
    /\ disk = EmptyDb
    /\ call = NoCall
    /\ config \in { c \in Configs : c.run_mode = "loop" }
    /\ pc = "idle"
    /\ run = NoRun
    /\ run_count = 0
    /\ returned = <<>>
    /\ sent = NoSend
    /\ candidates = 0
    /\ undelivered = {}
    /\ site \in [start_page..end_page -> PageContents]

NextRerun ==
    \/ StartRun
    \/ ParsePage(site[run.page])
    \/ Filter
    \/ Persist
    \/ \E fails \in FailSets : SendToTelegram(fails)
    \/ NextPage
    \/ Finish
    \/ Sleep

SpecRerun == InitRerun /\ [][NextRerun]_vars

(***************************************************************************)
(* Properties of the runs.                                                 *)
(***************************************************************************)
\* C1 (idempotent ingestion): against page contents that do not change, every
\* run after the first returns new_projects = 0 and the same count of stored
\* records as the run before it.
C1_IdempotentIngestion ==
    \A k \in 2..Len(returned) :
        /\ returned[k].new_projects = 0
        /\ returned[k].db_total_projects = returned[k - 1].db_total_projects

\* C2 (partition completeness): insert_projects returns inserted + skipped
\* equal to the number of records of its list whose id is not empty, and in a
\* run of parse_and_save, once a page is split, total_inserted + total_skipped
\* is the number of records with a non-empty id extracted so far; the dict a
\* run returns has new_projects + skipped_existing (and total_parsed) equal to
\* that number for all its pages.
C2_PartitionComplete ==
    /\ call.op = "insert_projects" =>
           call.inserted + call.skipped
             = Cardinality({ i \in 1..Len(call.projects) : call.projects[i].id # 0 })
    /\ pc \in {"fetch", "persist", "notify", "pace"} =>
           run.total_inserted + run.total_skipped = candidates
    /\ pc \in {"sleep", "exit"} =>
           LET stats == returned[Len(returned)] IN
           /\ stats.new_projects + stats.skipped_existing = candidates
           /\ stats.total_parsed = candidates

\* a run that met new records, known records and a record without id has
\* returned, and insert_projects was then given a list with a record without
\* id, a record it inserted or skipped
C2_Witness ==
    /\ pc = "sleep"
    /\ returned[Len(returned)].new_projects >= 1
    /\ returned[Len(returned)].skipped_existing >= 1
    /\ returned[Len(returned)].db_total_projects = 2
    /\ call.op = "insert_projects"
    /\ Len(call.projects) = 2
    /\ call.inserted + call.skipped = 1

\* C10 (a delivery failure never un-sees a record): a record whose
\* notification failed or raised stays in the committed store and is never
\* again among the new records of a page, in this run or a later one; and
\* whatever the outcome of the notification, the run goes on to pace the page.
C10_FailureKeepsRecordSeen ==
    /\ \A id \in undelivered : Affinity(id) \in Ids(disk)
    /\ pc \in {"persist", "notify"} =>
           Elems(IdsOf(run.new_projects)) \cap undelivered = {}
    /\ sent.op = "send_to_telegram" => pc = "pace"

\* C11 (continuous-mode recovery): in loop mode an exception that leaves a run
\* never ends the process: main() is then in the wait of except Exception or
\* back at the head of the loop, with the run abandoned, and the only way the
\* loop ends with a traceback is a KeyboardInterrupt.
C11_LoopRecovers ==
    config.run_mode = "loop" =>
        /\ call.op = "raised" => (pc \in {"retry_wait", "idle"} /\ run = NoRun)
        /\ pc = "crashed" => call.op = "KeyboardInterrupt"

\* the first run failed in the store and the second run has started
C11_Witness ==
    /\ config.run_mode = "loop"
    /\ pc = "fetch"
    /\ run_count = 2
    /\ returned = <<>>

\* C12 (run count on cancellation): when the loop is stopped by a
\* KeyboardInterrupt, the run_count it reports is the number of runs that
\* returned.
C12_ReportsCompletedRuns ==
    pc = "stopped" => run_count = Len(returned)

\* C13 (cancellation): in loop mode a KeyboardInterrupt always ends in the
\* handler that prints the report, and it comes only between runs, never
\* while a run is working on a page.
C13_CancellationAtRunBoundary ==
    (config.run_mode = "loop" /\ call.op = "KeyboardInterrupt") =>
        /\ pc = "stopped"
        /\ call.at \in {"idle", "sleep", "retry_wait"}

(***************************************************************************)
(* The Extractor: _extract_projects_from_js and _parse_project_data.       *)
(*                                                                         *)
(* A page is described by what the steps of the extractor find in it:      *)
(* whether the pattern window.stateData = {...}; matches, whether the      *)
(* matched block is valid JSON, and the decoded object.  A raw entry is a  *)
(* dict, given by the set of keys it has, or something that is not a dict. *)
(* A value is a sequence: empty for None, of one element for a value.      *)
(***************************************************************************)
None == <<>>

NoUser == [kind |-> "none", keys |-> {}, data_keys |-> {}]

\* the "user" of an entry: not a dict, or a dict with some of its keys, whose
\* "data" holds some of the reputation keys
RawUsers ==
    {[kind |-> "scalar", keys |-> {}, data_keys |-> {}]}
    \cup { [kind |-> "dict", keys |-> k, data_keys |-> dk] :
             k \in SUBSET {"username", "data"}, dk \in SUBSET {"wants_count"} }

RawKeys == {"id", "name", "views_dirty", "isHigherPrice", "user"}

\* raw entries with a consistent description
RawEntries ==
    {[kind |-> "scalar", keys |-> {}, user |-> NoUser]}
    \cup { e \in [kind : {"dict"}, keys : SUBSET RawKeys, user : RawUsers \cup {NoUser}] :
             /\ ("user" \in e.keys) = (e.user # NoUser)
             /\ ("data" \notin e.user.keys) => e.user.data_keys = {} }

\* the value json.loads gave for a key of an entry that has it
RawValue(key) ==
    CASE key = "id" -> <<7>>
      [] key = "name" -> <<"n">>
      [] key = "views_dirty" -> <<3>>
      [] key = "isHigherPrice" -> <<TRUE>>
      [] key = "username" -> <<"u">>
      [] key = "wants_count" -> <<"4">>

\* data.get(key, default)
Get(keys, key, default) == IF key \in keys THEN RawValue(key) ELSE default

\* the statements inside try raise: .get on something that is not a dict
ParseRaises(data) ==
    \/ data.kind # "dict"
    \/ "user" \in data.keys /\ data.user.kind # "dict"

\* project['buyer']
BuyerOf(user) ==
    LET base == [k \in {"username", "user_id"} |->
                    IF k = "username" THEN Get(user.keys, "username", <<"">>)
                    ELSE <<"">>]
    IN  IF "data" \in user.keys
        THEN base @@ [k \in {"wants_count"} |-> Get(user.data_keys, "wants_count", <<"0">>)]
        ELSE base

\* the dict built from a dict entry
BuildProject(data) ==
    LET fields == [k \in {"id", "name", "url", "offers_count", "is_higher_price"} |->
                     CASE k = "id" -> Get(data.keys, "id", None)
                       [] k = "name" -> Get(data.keys, "name", <<"">>)
                       [] k = "url" -> <<"k/">>
                       [] k = "offers_count" -> Get(data.keys, "views_dirty", <<0>>)
                       [] k = "is_higher_price" -> Get(data.keys, "isHigherPrice", <<FALSE>>)]
    IN  IF "user" \in data.keys
        THEN fields @@ [k \in {"buyer"} |-> <<BuyerOf(data.user)>>]
        ELSE fields

\* without the try: what the statements raise leaves the function
parse_project_data_NoTry(data) ==
    IF ParseRaises(data) THEN [raised |-> TRUE, project |-> None]
    ELSE [raised |-> FALSE, project |-> <<BuildProject(data)>>]

\* _parse_project_data: except Exception returns None
parse_project_data(data) ==
    IF ParseRaises(data) THEN [raised |-> FALSE, project |-> None]
    ELSE [raised |-> FALSE, project |-> <<BuildProject(data)>>]

\* the loop over projects_raw: an entry with a project is appended; an
\* exception leaving _parse_project_data leaves the loop too
RECURSIVE ParseEntries(_, _, _)
ParseEntries(items, i, projects) ==
    IF i > Len(items) THEN [raised |-> FALSE, projects |-> projects]
    ELSE LET r == parse_project_data(items[i])
         IN  IF r.raised THEN [raised |-> TRUE, projects |-> <<>>]
             ELSE ParseEntries(items, i + 1,
                               IF r.project # None THEN projects \o r.project ELSE projects)

\* _extract_projects_from_js; raised tells whether an exception leaves it
extract_projects_from_js(html) ==
    IF ~html.anchor THEN [raised |-> FALSE, projects |-> <<>>]
    ELSE IF ~html.decodes THEN [raised |-> FALSE, projects |-> <<>>]
    ELSE IF ~html.has_wants_list_data THEN [raised |-> FALSE, projects |-> <<>>]
    ELSE LET projects_raw ==
                 IF html.pagination # None /\ html.pagination[1].data # None
                 THEN html.pagination[1].data
                 ELSE html.wants
         IN  IF projects_raw = None THEN [raised |-> FALSE, projects |-> <<>>]
             ELSE IF projects_raw[1].kind # "list" THEN [raised |-> FALSE, projects |-> <<>>]
             ELSE LET r == ParseEntries(projects_raw[1].items, 1, <<>>)
                  IN  IF r.raised THEN [raised |-> FALSE, projects |-> <<>>] ELSE r

(***************************************************************************)
(* SpecExtract: one call of the extractor on a page, or one call of        *)
(* _parse_project_data on a raw entry.                                     *)
(***************************************************************************)
MaxEntries == 2

\* the entries that pages list: complete, empty, with a user that has no
\* "data", not a dict, and with a user that is not a dict
PageEntries ==
    { e \in RawEntries :
        \/ e.kind = "scalar"
        \/ e.keys = {}
        \/ e.keys = RawKeys /\ e.user.kind = "scalar"
        \/ e.keys = RawKeys /\ e.user.keys = {"username"}
        \/ e.keys = RawKeys /\ e.user.keys = {"username", "data"}
                            /\ e.user.data_keys = {"wants_count"} }

\* a value that is absent, not a list, or a list of entries
RawLists ==
    {None, <<[kind |-> "scalar", items |-> <<>>]>>}
    \cup { <<[kind |-> "list", items |-> items]>> : items \in SeqsUpTo(PageEntries, MaxEntries) }

Paginations == {None} \cup { <<[data |-> l]>> : l \in RawLists }

Htmls ==
    [anchor : BOOLEAN, decodes : BOOLEAN, has_wants_list_data : BOOLEAN,
     pagination : Paginations, wants : RawLists]

InitExtract ==
    /\ db = EmptyDb
    /\ disk = EmptyDb
    /\ call = NoCall
    /\ NotStarted

ExtractProjectsCall(html) ==
    /\ call.op = "none"
    /\ call' = [op |-> "extract_projects_from_js", html |-> html,
                result |-> extract_projects_from_js(html)]
    /\ UNCHANGED <<db, disk>>
    /\ UNCHANGED mainVars

ParseProjectDataCall(data) ==
    /\ call.op = "none"
    /\ call' = [op |-> "parse_project_data", data |-> data,
                result |-> parse_project_data(data)]
    /\ UNCHANGED <<db, disk>>
    /\ UNCHANGED mainVars

NextExtract ==
    \/ call.op = "none" /\ \E html \in Htmls : ExtractProjectsCall(html)
    \/ call.op = "none" /\ \E data \in RawEntries : ParseProjectDataCall(data)

SpecExtract == InitExtract /\ [][NextExtract]_vars

(***************************************************************************)
(* Claims about the Extractor.                                             *)
(***************************************************************************)
\* an entry is well formed when it is a dict whose "user", if any, is a dict
WellFormedEntry(e) == e.kind = "dict" /\ ("user" \in e.keys => e.user.kind = "dict")

\* the listing array of a page: pagination.data, else wants; None when the page
\* has neither shape
ListingOf(h) ==
    IF h.pagination # None /\ h.pagination[1].data # None THEN h.pagination[1].data
    ELSE h.wants

\* C14: the Extractor never raises to its caller; without the anchor, without
\* the listing array in both shapes, or with a block that does not decode, it
\* returns the empty sequence; and of a valid array it returns the records of
\* the well-formed entries, in input order, skipping each malformed entry.
C14_ExtractorTotal ==
    call.op = "extract_projects_from_js" =>
        LET h == call.html
            r == call.result
            kept == IF ListingOf(h) # None /\ ListingOf(h)[1].kind = "list"
                    THEN SelectSeq(ListingOf(h)[1].items, WellFormedEntry)
                    ELSE <<>>
        IN  /\ ~r.raised
            /\ (~h.anchor \/ ~h.decodes \/ ~h.has_wants_list_data \/ ListingOf(h) = None)
                   => r.projects = <<>>
            /\ (h.anchor /\ h.decodes /\ h.has_wants_list_data)
                   => r.projects = [i \in 1..Len(kept) |-> BuildProject(kept[i])]

\* a valid array of a malformed entry followed by a well-formed one, of which
\* the well-formed one is returned
C14_Witness ==
    /\ call.op = "extract_projects_from_js"
    /\ call.html.anchor /\ call.html.decodes /\ call.html.has_wants_list_data
    /\ ListingOf(call.html) # None
    /\ ListingOf(call.html)[1].kind = "list"
    /\ Len(ListingOf(call.html)[1].items) = 2
    /\ ~WellFormedEntry(ListingOf(call.html)[1].items[1])
    /\ WellFormedEntry(ListingOf(call.html)[1].items[2])
    /\ Len(call.result.projects) = 1

\* the records a call produced
Produced ==
    IF call.op = "extract_projects_from_js" THEN Elems(call.result.projects)
    ELSE IF call.op = "parse_project_data" THEN Elems(call.result.project)
    ELSE {}

\* every field of the record, and every field of its embedded actor, is in the
\* record with a value other than None
AllConcrete(project) ==
    /\ \A k \in {"id", "name", "url", "offers_count", "is_higher_price"} :
           k \in DOMAIN project /\ project[k] # None
    /\ "buyer" \in DOMAIN project =>
           \A k \in {"username", "user_id", "wants_count"} :
               k \in DOMAIN project["buyer"][1] /\ project["buyer"][1][k] # None

\* C15: every record the Extractor produces carries a concrete value for every
\* field, the identifier and the reputation fields of an embedded actor
\* included: none is None and none is left out.
C15_FieldsConcrete ==
    \A project \in Produced : AllConcrete(project)

(***************************************************************************)
(* Claims about the order of the steps of a page.                          *)
(***************************************************************************)
\* every record of the sequence has its row in the committed file
Committed(projects) ==
    \A i \in 1..Len(projects) : Affinity(projects[i].id) \in Ids(disk)

\* C16: every record handed to the Notifier for a page is already written and
\* committed when the Notifier is called, the Notifier is called only after
\* the page's persist step, and the fetch of a page starts only from the start
\* of the run or after the steps of the page before it have finished.
C16_PageOrder ==
    /\ [](/\ pc = "notify" => Committed(run.new_projects)
          /\ sent.op = "send_to_telegram" => Committed(sent.projects))
    /\ [][/\ pc' = "notify" => pc = "persist"
          /\ pc' = "fetch" => \/ pc = "idle" /\ run'.page = start_page
                              \/ pc = "pace" /\ run'.page = run.page + 1]_vars

\* the Notifier was called for the records of the second page
C16_Witness ==
    /\ sent.op = "send_to_telegram"
    /\ sent.projects # <<>>
    /\ run.page = end_page
    /\ Committed(sent.projects)

(***************************************************************************)
(* Claims about the delivery of a long text.                               *)
(***************************************************************************)
\* C17: the segments of a long text are delivered in order, each at most
\* once; the result is true exactly when every segment was delivered with
\* success; a failed segment ends the delivery with false, the segments sent
\* before it stay sent and none is sent again.
C17_SplitDelivery ==
    (call.op = "send_message" /\ Len(call.text) > HardLimit) =>
        LET parts == call.parts
            posts == call.posts
        IN  /\ Len(posts) <= Len(parts)
            /\ \A j \in 1..Len(posts) : posts[j].text = parts[j]
            /\ call.ok = (Len(posts) = Len(parts) /\ \A j \in 1..Len(posts) : posts[j].ok)
            /\ \A j \in 1..(Len(posts) - 1) : posts[j].ok
            /\ ~call.ok => (posts # <<>> /\ ~posts[Len(posts)].ok)

\* the second of two segments fails after the first was delivered
C17_Witness ==
    /\ call.op = "send_message"
    /\ Len(call.text) > HardLimit
    /\ Len(call.parts) = 2
    /\ Len(call.posts) = 2
    /\ call.posts[1].ok
    /\ ~call.posts[2].ok
    /\ ~call.ok

NotWhitespace(c) == c \notin Whitespace

RECURSIVE Concat(_)
Concat(parts) == IF parts = <<>> THEN <<>> ELSE Head(parts) \o Concat(Tail(parts))

\* parts[i], parts[i+1], ... are the segments of rest: a rest of at most 4000
\* characters is the last segment; a longer one is cut at its last newline
\* among the first 4000 characters, or after 4000 characters when there is
\* none, and the segments that follow are those of what comes after the cut,
\* less the whitespace it begins with
RECURSIVE CutsFollow(_, _, _)
CutsFollow(rest, parts, i) ==
    IF rest = <<>> THEN i = Len(parts) + 1
    ELSE IF i > Len(parts) THEN FALSE
    ELSE IF Len(rest) <= max_length THEN i = Len(parts) /\ parts[i] = rest
    ELSE LET window == { j \in 1..max_length : rest[j] = "\n" }
             cut == IF window = {} THEN max_length
                    ELSE (CHOOSE j \in window : \A m \in window : m <= j) - 1
             after == SubSeq(rest, cut + 1, Len(rest))
             gaps == { g \in 0..Len(after) :
                         /\ \A j \in 1..g : after[j] \in Whitespace
                         /\ g < Len(after) => after[g + 1] \notin Whitespace }
         IN  /\ parts[i] = SubSeq(rest, 1, cut)
             /\ \E g \in gaps : CutsFollow(SubSeq(after, g + 1, Len(after)), parts, i + 1)

\* C18: each cut of a long text is made at the last newline of the window of
\* 4000 characters, or at 4000 characters when the window has no newline; the
\* segments in order are the text less the whitespace that follows each cut,
\* so no other character is lost, repeated or moved.
C18_SplitLossless ==
    (call.op = "send_message" /\ Len(call.text) > HardLimit) =>
        /\ CutsFollow(call.text, call.parts, 1)
        /\ SelectSeq(Concat(call.parts), NotWhitespace) = SelectSeq(call.text, NotWhitespace)

\* a text cut at a newline before the ceiling, whose second segment lost the
\* whitespace at the cut
C18_Witness ==
    /\ call.op = "send_message"
    /\ Len(call.text) > HardLimit
    /\ Len(call.parts) = 2
    /\ Len(call.parts[1]) < max_length
    /\ call.parts[1] # <<>>
    /\ Len(call.parts[1]) + Len(call.parts[2]) + 2 = Len(call.text)

(***************************************************************************)
(* Claims about the link between a record and its actor.                   *)
(***************************************************************************)
\* C19: after any sequence of insert_project calls the link table holds at
\* most one row per record id: a later call for the same id with another
\* actor adds no second link.
C19_OneActorPerRecord ==
    \A l1 \in BagToSet(db.project_buyers) :
        \A l2 \in BagToSet(db.project_buyers) :
            l1[1] = l2[1] => l1 = l2

(***************************************************************************)
(* Claims about a store operation that raises during parse_and_save.       *)
(***************************************************************************)
\* C20: when a store operation raises during parse_and_save the run ends
\* there: the step is not repeated, no page of that run is fetched, stored or
\* notified afterwards, no summary is returned for it, and the error reaches
\* main(), which ends the process in the single run and waits before a new
\* run in loop mode.
C20_PersistenceFailureFatal ==
    /\ [](call.op = "raised" =>
            /\ run = NoRun
            /\ sent = NoSend
            /\ pc \in (IF config.run_mode = "loop" THEN {"retry_wait", "idle"}
                       ELSE {"crashed"})
            /\ config.run_mode = "once" => returned = <<>>)
    /\ [][(call'.op = "raised" /\ call' # call) =>
            /\ returned' = returned
            /\ disk' = disk
            /\ db' = disk
            /\ pc' = (IF config.run_mode = "loop" THEN "retry_wait" ELSE "crashed")]_vars
    /\ [][(call.op = "raised" /\ pc' = "fetch") =>
            (run'.page = start_page /\ run_count' = run_count + 1)]_vars

\* the single run ended by an error of the insert loop, records of earlier
\* commits in the file
C20_Witness ==
    /\ config.run_mode = "once"
    /\ call.op = "raised"
    /\ call.at = "persist"
    /\ pc = "crashed"
    /\ Ids(disk) # {}

(***************************************************************************)
(* Claims about the counts and the notifications of a run.                 *)
(***************************************************************************)
\* C21: the new_projects a run returns is the number of rows the run added to
\* the projects table: the count of the table after the run less the count
\* before it, which is the count the run before returned, or none before
\* the first run.
C21_CountIsRowsAdded ==
    \A k \in 1..Len(returned) :
        returned[k].new_projects
          = returned[k].db_total_projects
              - (IF k = 1 THEN 0 ELSE returned[k - 1].db_total_projects)

\* C22: after any sequence of store operations every row of the link table
\* names a record id that has a row in the projects table and an actor id
\* that has a row in the buyers table.
C22_LinksRefer ==
    \A l \in BagToSet(db.project_buyers) :
        /\ l[1] \in Ids(db)
        /\ \E b \in BagToSet(db.buyers) : b.user_id = l[2]

\* C23: no segment of a text longer than 4096 characters is empty: every
\* segment the split produces, and every text handed to a delivery call, has
\* at least one character.
C23_NoEmptySegment ==
    (call.op = "send_message" /\ Len(call.text) > HardLimit) =>
        /\ \A i \in 1..Len(call.parts) : call.parts[i] # <<>>
        /\ \A j \in 1..Len(call.posts) : call.posts[j].text # <<>>

\* C24: each record identifier is handed to the Notifier at most once.  Here
\* for the records of one run: once the Notifier has been called, the new
\* records the run has collected, which are those it handed to the Notifier,
\* name no record twice.
C24_NotifiedOnce ==
    sent.op = "send_to_telegram" =>
        \A i \in 1..Len(run.all_new_projects) :
            \A j \in 1..Len(run.all_new_projects) :
                Affinity(run.all_new_projects[i].id) = Affinity(run.all_new_projects[j].id)
                    => i = j

====
